---- MODULE Spec2Model ----
(***************************************************************************)
(* A model of dosocs2/spdxdb.py: content-addressed registration of files   *)
(* and packages, identifier allocation at document assembly, and the       *)
(* relationship graph with its dependency query.  Tables are sequences of  *)
(* rows; a row's primary key is its position (keys are handed out in       *)
(* insertion order and no row is ever deleted).                            *)
(***************************************************************************)
EXTENDS Integers, Sequences, FiniteSets, TLC

(***************************************************************************)
(* Bounds of the model.                                                    *)
(***************************************************************************)
\* directory trees of the modelled filesystem (tree t is also what archive t unpacks to)
NumTrees == 3
\* cap on the rows of the packages table for the callers of Spec and ConcSpec
MaxPackages == 2

\* Python's None / SQL NULL
None == 0

(***************************************************************************)
(* The filesystem the callers pass in (util.sha1, util.get_dir_hashes,     *)
(* util.spdx_filetype, util.abs_to_rel are outside spdxdb.py).             *)
(***************************************************************************)
Trees == 1..NumTrees

\* number of regular files below the root of tree t
TreeSize(t) == IF t % 3 = 0 THEN 2 ELSE t % 3

\* absolute paths of the files of tree t: <<tree, relative name>>
TreePaths(t) == {<<t, n>> : n \in 1..TreeSize(t)}

AllPaths == UNION {TreePaths(t) : t \in Trees}

\* number of distinct file contents
NumContents == 2

\* util.sha1 of a regular file: its content hash (equal contents, equal hash)
FileSha1(path) == ((path[1] * path[2] + path[2]) % NumContents) + 1

\* util.sha1 of the archive file that unpacks to tree t
ArchiveSha1(t) == NumContents + t

\* util.spdx_filetype(path): the name of the SPDX file type of the file
SpdxFiletype(path) == IF path[2] % 2 = 1 THEN "SOURCE" ELSE "OTHER"

\* util.abs_to_rel(package_root, file_path)
AbsToRel(path) == path[2]

TypeNames == {"SOURCE", "OTHER"}

\* the elements of a sequence
Range(s) == {s[i] : i \in DOMAIN s}

\* all orders in which the elements of a finite set can be enumerated
Orders(S) == {s \in [1..Cardinality(S) -> S] : Range(s) = S}

\* insertion of x into an ascending sequence
RECURSIVE SortedInsert(_, _)
SortedInsert(s, x) ==
  IF s = <<>> THEN <<x>>
  ELSE IF x <= Head(s) THEN <<x>> \o s
  ELSE <<Head(s)>> \o SortedInsert(Tail(s), x)

\* sorted(xs)
RECURSIVE Sorted(_)
Sorted(s) == IF s = <<>> THEN <<>> ELSE SortedInsert(Sorted(Tail(s)), Head(s))

\* a digest of a sequence of hashes: the digits are the hashes, the digest is
\* collision free (it is the concatenation read as a number)
RECURSIVE Digest(_)
Digest(s) == IF s = <<>> THEN 1 ELSE Head(s) + (NumContents + 1) * Digest(Tail(s))

\* a verification code computed over the hashes in the order given
GenVerCodeUnsorted(hashes) == Digest(hashes)

\* util.gen_ver_code(hashes): each file's hash, sorted ascending, concatenated
\* and hashed
GenVerCode(hashes) == Digest(Sorted(hashes))

\* hashes.values() of tree t, in relative-name order
TreeHashes(t) == [n \in 1..TreeSize(t) |-> FileSha1(<<t, n>>)]

\* the SPDX verification code: the hashes sorted, concatenated, hashed
VerCode(t) == GenVerCode(TreeHashes(t))

\* the directory code: a digest of the listing (relative name, hash) of the tree
DirCode(t) == Digest(TreeHashes(t))

(***************************************************************************)
(* The database.                                                           *)
(***************************************************************************)
VARIABLES
  file_types,          \* names that have a row in file_types
  files,               \* rows [sha1, file_type]
  packages,            \* rows [sha1, dosocs2_dir_code, verification_code, file_name]
  packages_files,      \* rows [package_id, file_id, file_name]
  document_namespaces, \* number of rows (every uri is fresh)
  documents,           \* rows [document_namespace_id, package_id]
  identifiers,         \* rows [document_namespace_id, document_id, package_id, package_file_id, id_string]
  relationships,       \* rows [left_identifier_id, relationship_type_id, right_identifier_id]
  last,                \* the last completed call: [op, arg, outcome, val]
  proc                 \* the calls in progress of the concurrent callers

vars == <<file_types, files, packages, packages_files, document_namespaces,
          documents, identifiers, relationships, last, proc>>

regTables == <<files, packages, packages_files>>
docTables == <<document_namespaces, documents, identifiers>>

(***************************************************************************)
(* Statements.                                                             *)
(***************************************************************************)
\* "[result] = conn.execute(query).fetchall() or [None]" over the matching keys:
\* None, the one row, or ValueError (too many values to unpack)
TooMany == -1
Unpack(ids) ==
  IF ids = {} THEN None
  ELSE IF Cardinality(ids) = 1 THEN CHOOSE i \in ids : TRUE
  ELSE TooMany

\* a lookup that never finds a row
LookupBySha1Miss(table, sha1) == None

LookupBySha1(table, sha1) ==
  Unpack({i \in DOMAIN table : table[i].sha1 # None /\ table[i].sha1 = sha1})

GetCachedDirPkg(pkgs, dir_code, ver_code) ==
  Unpack({i \in DOMAIN pkgs : /\ pkgs[i].dosocs2_dir_code # None
                              /\ pkgs[i].dosocs2_dir_code = dir_code
                              /\ pkgs[i].verification_code = ver_code})

\* storage constraint: files.sha1 is unique
FileInsertAllowed(fs, row) == \A i \in DOMAIN fs : fs[i].sha1 # row.sha1

\* storage constraints: packages.sha1 is unique, and so is
\* (dosocs2_dir_code, verification_code); NULLs never conflict
PackageInsertAllowed(pkgs, row) ==
  \A i \in DOMAIN pkgs :
     /\ row.sha1 # None => pkgs[i].sha1 # row.sha1
     /\ row.dosocs2_dir_code # None =>
          ~(/\ pkgs[i].dosocs2_dir_code = row.dosocs2_dir_code
            /\ pkgs[i].verification_code = row.verification_code)

(***************************************************************************)
(* register_file and register_package, one caller.                         *)
(***************************************************************************)
\* register_file(conn, path, known_sha1) on the files table fs:
\* the table afterwards, the outcome and the file_id of the returned File
RegisterFileOn(fs, ftypes, path, sha1) ==
  LET file == LookupBySha1(fs, sha1) IN
  IF file = TooMany THEN [files |-> fs, outcome |-> "ValueError", file_id |-> None]
  ELSE IF file # None THEN [files |-> fs, outcome |-> "ok", file_id |-> file]
  ELSE IF SpdxFiletype(path) \notin ftypes
       THEN [files |-> fs, outcome |-> "TypeError", file_id |-> None]
  ELSE LET row == [sha1 |-> sha1, file_type |-> SpdxFiletype(path)] IN
       IF ~FileInsertAllowed(fs, row)
       THEN [files |-> fs, outcome |-> "IntegrityError", file_id |-> None]
       ELSE [files |-> Append(fs, row), outcome |-> "ok", file_id |-> Len(fs) + 1]

\* the loop "for (file_path, file_sha1) in hashes.iteritems()" of register_package
\* over the paths in iteration order: the files table afterwards, the outcome and
\* row_params; an exception leaves the loop at once
RECURSIVE RegisterFilesLoop(_, _, _, _, _)
RegisterFilesLoop(fs, ftypes, order, package_id, row_params) ==
  IF order = <<>> THEN [files |-> fs, outcome |-> "ok", row_params |-> row_params]
  ELSE LET r == RegisterFileOn(fs, ftypes, Head(order), FileSha1(Head(order))) IN
       IF r.outcome # "ok"
       THEN [files |-> r.files, outcome |-> r.outcome, row_params |-> row_params]
       ELSE RegisterFilesLoop(r.files, ftypes, Tail(order), package_id,
              Append(row_params, [package_id |-> package_id,
                                  file_id |-> r.file_id,
                                  file_name |-> AbsToRel(Head(order))]))

\* a package dict whose dosocs2_dir_code test is inverted
PackageRowInverted(t, arch) ==
  LET sha1 == IF arch THEN ArchiveSha1(t) ELSE None IN
  [sha1 |-> sha1,
   dosocs2_dir_code |-> IF sha1 # None THEN DirCode(t) ELSE None,
   verification_code |-> VerCode(t),
   file_name |-> <<IF arch THEN "archive" ELSE "dir", t>>]

\* a package dict that always stores the directory code
PackageRowBoth(t, arch) ==
  LET sha1 == IF arch THEN ArchiveSha1(t) ELSE None IN
  [sha1 |-> sha1,
   dosocs2_dir_code |-> DirCode(t),
   verification_code |-> VerCode(t),
   file_name |-> <<IF arch THEN "archive" ELSE "dir", t>>]

\* the package dict of register_package (file_name is the basename of the
\* archive or of the root)
PackageRow(t, arch) ==
  LET sha1 == IF arch THEN ArchiveSha1(t) ELSE None IN
  [sha1 |-> sha1,
   dosocs2_dir_code |-> IF sha1 # None THEN None ELSE DirCode(t),
   verification_code |-> VerCode(t),
   file_name |-> <<IF arch THEN "archive" ELSE "dir", t>>]

\* the cache lookups of register_package, in the order the code makes them:
\* the package_id found, None, or TooMany
CachedPackage(pkgs, t, arch) ==
  IF arch THEN LookupBySha1(pkgs, ArchiveSha1(t))
  ELSE GetCachedDirPkg(pkgs, DirCode(t), VerCode(t))

\* register_file(conn, path) called directly
RegisterFile(path) ==
  LET r == RegisterFileOn(files, file_types, path, FileSha1(path)) IN
  /\ files' = r.files
  /\ last' = [op |-> "register_file", arg |-> path, outcome |-> r.outcome,
              val |-> r.file_id]
  /\ UNCHANGED <<file_types, packages, packages_files, docTables, relationships, proc>>

\* a register_package that walks the tree before any lookup
TreeWalkedAlways(pkgs, t, arch) == TRUE

\* register_package, lines 97-103: util.get_dir_hashes(package_root) walks the
\* tree unless the call has returned the package found by the archive's hash
\* (or that lookup has raised)
TreeWalked(pkgs, t, arch) == ~arch \/ LookupBySha1(pkgs, ArchiveSha1(t)) = None

\* register_package(conn, package_root, package_file_path): tree t, registered
\* through its archive (arch) or as a directory
RegisterPackage(t, arch) ==
  LET cached == CachedPackage(packages, t, arch) IN
  IF cached = TooMany THEN
    /\ last' = [op |-> "register_package", arg |-> <<t, arch>>,
                walked |-> TreeWalked(packages, t, arch),
                outcome |-> "ValueError", val |-> None]
    /\ UNCHANGED <<file_types, regTables, docTables, relationships, proc>>
  ELSE IF cached # None THEN
    /\ last' = [op |-> "register_package", arg |-> <<t, arch>>,
                walked |-> TreeWalked(packages, t, arch),
                outcome |-> "ok", val |-> cached]
    /\ UNCHANGED <<file_types, regTables, docTables, relationships, proc>>
  ELSE
    LET row == PackageRow(t, arch) IN
       IF ~PackageInsertAllowed(packages, row) THEN
         /\ last' = [op |-> "register_package", arg |-> <<t, arch>>,
                walked |-> TreeWalked(packages, t, arch),
                     outcome |-> "IntegrityError", val |-> None]
         /\ UNCHANGED <<file_types, regTables, docTables, relationships, proc>>
       ELSE
         \E order \in Orders(TreePaths(t)) :
           LET package_id == Len(packages) + 1
               r == RegisterFilesLoop(files, file_types, order, package_id, <<>>)
           IN /\ packages' = Append(packages, row)
              /\ files' = r.files
              /\ packages_files' = IF r.outcome = "ok"
                                   THEN packages_files \o r.row_params
                                   ELSE packages_files
              /\ last' = [op |-> "register_package", arg |-> <<t, arch>>,
                walked |-> TreeWalked(packages, t, arch),
                          outcome |-> r.outcome,
                          val |-> IF r.outcome = "ok" THEN package_id ELSE None]
              /\ UNCHANGED <<file_types, docTables, relationships, proc>>

(***************************************************************************)
(* Document assembly: create_document_namespace, create_all_identifiers,   *)
(* autocreate_relationships, create_document.                              *)
(***************************************************************************)
\* relationship_type_id values of the relationship_types table
DESCRIBES == 1
DESCRIBED_BY == 2
CONTAINS == 3
CONTAINED_BY == 4
\* the type create_relationship_prerequisite writes and get_dependencies reads
PREREQUISITE == 29

\* the keys of the rows of table that satisfy Test, in key order
RECURSIVE KeysWhere(_, _, _)
KeysWhere(table, Test(_), k) ==
  IF k > Len(table) THEN <<>>
  ELSE (IF Test(table[k]) THEN <<k>> ELSE <<>>) \o KeysWhere(table, Test, k + 1)

\* the sanitized form of a name: characters outside the identifier alphabet are
\* lost, so different names can give the same text (the relative names 1 and 2
\* of a tree do); of a package's file_name the kind of input is lost
Sanitize(kind, name) == IF kind = "file" THEN (name + 1) \div 2 ELSE name[2]

\* util.gen_id_string(kind, name, fingerprint): the kind tag, the sanitized name
\* and the fingerprint
GenIdString(kind, name, fingerprint) == <<kind, Sanitize(kind, name), fingerprint>>

\* 'SPDXRef-DOCUMENT'
DocumentIdString == <<"DOCUMENT", None, None>>

\* storage constraint: (document_namespace_id, id_string) is unique in
\* identifiers; rows is what one statement inserts
IdentifiersInsertAllowed(idents, rows) ==
  /\ \A k \in DOMAIN rows : \A i \in DOMAIN idents :
        ~(/\ idents[i].document_namespace_id = rows[k].document_namespace_id
          /\ idents[i].id_string = rows[k].id_string)
  /\ \A k, l \in DOMAIN rows :
        (k # l /\ rows[k].document_namespace_id = rows[l].document_namespace_id)
          => rows[k].id_string # rows[l].id_string

\* a create_all_identifiers that identifies the files and not the package
CreateAllIdentifiersOnFilesOnly(idents, fs, pkgs, pfs, ns, package_id) ==
  LET OfPackage(pf) == pf.package_id = package_id
      all_files == KeysWhere(pfs, OfPackage, 1)
      rows_list == [k \in DOMAIN all_files |->
                      [document_namespace_id |-> ns, document_id |-> None,
                       package_id |-> None, package_file_id |-> all_files[k],
                       id_string |-> GenIdString("file", pfs[all_files[k]].file_name,
                                                 fs[pfs[all_files[k]].file_id].sha1)]]
  IN IF ~IdentifiersInsertAllowed(idents, rows_list)
     THEN [identifiers |-> idents, outcome |-> "IntegrityError"]
     ELSE [identifiers |-> idents \o rows_list, outcome |-> "ok"]

\* create_all_identifiers(conn, doc_namespace_id, package): one identifier per
\* packages_files row of the package (bulk insert), then the package's; a
\* statement that the storage constraint rejects ends the call
CreateAllIdentifiersOn(idents, fs, pkgs, pfs, ns, package_id) ==
  LET OfPackage(pf) == pf.package_id = package_id
      all_files == KeysWhere(pfs, OfPackage, 1)
      rows_list == [k \in DOMAIN all_files |->
                      [document_namespace_id |-> ns, document_id |-> None,
                       package_id |-> None, package_file_id |-> all_files[k],
                       id_string |-> GenIdString("file", pfs[all_files[k]].file_name,
                                                 fs[pfs[all_files[k]].file_id].sha1)]]
      package_id_params == [document_namespace_id |-> ns, document_id |-> None,
                            package_id |-> package_id, package_file_id |-> None,
                            id_string |-> GenIdString("package", pkgs[package_id].file_name,
                                                      pkgs[package_id].verification_code)]
  IN IF ~IdentifiersInsertAllowed(idents, rows_list)
     THEN [identifiers |-> idents, outcome |-> "IntegrityError"]
     ELSE IF ~IdentifiersInsertAllowed(idents \o rows_list, <<package_id_params>>)
     THEN [identifiers |-> idents \o rows_list, outcome |-> "IntegrityError"]
     ELSE [identifiers |-> Append(idents \o rows_list, package_id_params),
           outcome |-> "ok"]

\* the identifier of a document, package or packages_files row in namespace ns
IdentifierOf(idents, ns, field, ref) ==
  {i \in DOMAIN idents : /\ idents[i].document_namespace_id = ns
                         /\ ref # None
                         /\ idents[i][field] = ref}

Edge(left, type, right) ==
  [left_identifier_id |-> left, relationship_type_id |-> type,
   right_identifier_id |-> right]

\* queries.auto_contains(docid) / queries.auto_contained_by(docid): the package of
\* the document and each of its files, both by their identifier in the
\* document's namespace
AutoContains(docs, idents, pfs, docid, type) ==
  LET ns == docs[docid].document_namespace_id
      OfPackage(pf) == pf.package_id = docs[docid].package_id
      keys == KeysWhere(pfs, OfPackage, 1)
      Pairs(k) == {<<p, f>> : p \in IdentifierOf(idents, ns, "package_id", docs[docid].package_id),
                              f \in IdentifierOf(idents, ns, "package_file_id", keys[k])}
      RECURSIVE Rows(_)
      Rows(k) == IF k > Len(keys) THEN <<>>
                 ELSE (IF Pairs(k) = {} THEN <<>>
                       ELSE LET pr == CHOOSE x \in Pairs(k) : TRUE IN
                            <<IF type = CONTAINS THEN Edge(pr[1], type, pr[2])
                              ELSE Edge(pr[2], type, pr[1])>>)
                      \o Rows(k + 1)
  IN Rows(1)

\* queries.auto_describes(docid) / queries.auto_described_by(docid)
AutoDescribes(docs, idents, docid, type) ==
  LET ns == docs[docid].document_namespace_id
      pairs == {<<d, p>> : d \in IdentifierOf(idents, ns, "document_id", docid),
                           p \in IdentifierOf(idents, ns, "package_id", docs[docid].package_id)}
  IN IF pairs = {} THEN <<>>
     ELSE LET pr == CHOOSE x \in pairs : TRUE IN
          <<IF type = DESCRIBES THEN Edge(pr[1], type, pr[2])
            ELSE Edge(pr[2], type, pr[1])>>

\* storage constraint: (left, type, right) is unique in relationships
RelationshipInsertAllowed(rels, row) == \A i \in DOMAIN rels : rels[i] # row

\* bulk_insert(conn, db.relationships, row_params) after an outcome so far: one
\* statement, which the storage constraint rejects as a whole
BulkInsertRelationships(sofar, row_params) ==
  IF sofar.outcome # "ok" THEN sofar
  ELSE IF /\ \A k \in DOMAIN row_params :
               RelationshipInsertAllowed(sofar.relationships, row_params[k])
          /\ \A k, l \in DOMAIN row_params : k # l => row_params[k] # row_params[l]
  THEN [relationships |-> sofar.relationships \o row_params, outcome |-> "ok"]
  ELSE [relationships |-> sofar.relationships, outcome |-> "IntegrityError"]

\* an autocreate_relationships that leaves out the reverse edges
AutocreateRelationshipsOnForward(rels, docs, idents, pfs, docid) ==
  BulkInsertRelationships(
    BulkInsertRelationships([relationships |-> rels, outcome |-> "ok"],
                            AutoContains(docs, idents, pfs, docid, CONTAINS)),
    AutoDescribes(docs, idents, docid, DESCRIBES))

\* autocreate_relationships(conn, docid): the four queries, each bulk-inserted
AutocreateRelationshipsOn(rels, docs, idents, pfs, docid) ==
  BulkInsertRelationships(
    BulkInsertRelationships(
      BulkInsertRelationships(
        BulkInsertRelationships([relationships |-> rels, outcome |-> "ok"],
                                AutoContains(docs, idents, pfs, docid, CONTAINS)),
        AutoContains(docs, idents, pfs, docid, CONTAINED_BY)),
      AutoDescribes(docs, idents, docid, DESCRIBES)),
    AutoDescribes(docs, idents, docid, DESCRIBED_BY))

\* autocreate_relationships(conn, docid) called directly, for a stored document
AutocreateRelationships(docid) ==
  LET auto == AutocreateRelationshipsOn(relationships, documents, identifiers,
                                        packages_files, docid) IN
  /\ relationships' = auto.relationships
  /\ last' = [op |-> "autocreate_relationships", arg |-> docid,
              outcome |-> auto.outcome, val |-> None]
  /\ UNCHANGED <<file_types, regTables, docTables, proc>>

\* create_document(conn, prefix, package) on the tables: the namespace, the
\* document, its identifier, the identifiers of the package and its files, and
\* the structural relationships; the tables afterwards.  When
\* create_all_identifiers fails, the rows inserted before stay and
\* autocreate_relationships is not reached
CreateDocumentOn(namespaces, docs, idents, rels, fs, pkgs, pfs, package_id) ==
  LET doc_namespace_id == namespaces + 1
      new_document_id == Len(docs) + 1
      new_docs == Append(docs, [document_namespace_id |-> doc_namespace_id,
                                package_id |-> package_id])
      document_identifier_params ==
        [document_namespace_id |-> doc_namespace_id, document_id |-> new_document_id,
         package_id |-> None, package_file_id |-> None,
         id_string |-> DocumentIdString]
      all == CreateAllIdentifiersOn(Append(idents, document_identifier_params),
                                    fs, pkgs, pfs, doc_namespace_id, package_id)
      auto == IF all.outcome = "ok"
              THEN AutocreateRelationshipsOn(rels, new_docs, all.identifiers, pfs,
                                             new_document_id)
              ELSE [relationships |-> rels, outcome |-> all.outcome]
  IN [document_namespaces |-> doc_namespace_id,
      documents |-> new_docs,
      identifiers |-> all.identifiers,
      relationships |-> auto.relationships,
      outcome |-> auto.outcome,
      document_id |-> IF auto.outcome = "ok" THEN new_document_id ELSE None]

\* create_document(conn, prefix, package): package is a registered package
CreateDocument(package_id) ==
  LET r == CreateDocumentOn(document_namespaces, documents, identifiers,
                            relationships, files, packages, packages_files,
                            package_id) IN
  /\ document_namespaces' = r.document_namespaces
  /\ documents' = r.documents
  /\ identifiers' = r.identifiers
  /\ relationships' = r.relationships
  /\ last' = [op |-> "create_document", arg |-> package_id, outcome |-> r.outcome,
              val |-> r.document_id]
  /\ UNCHANGED <<file_types, regTables, proc>>

\* create_document_namespace(conn, prefix, doc_name) called directly
CreateDocumentNamespace ==
  /\ document_namespaces' = document_namespaces + 1
  /\ last' = [op |-> "create_document_namespace", arg |-> None, outcome |-> "ok",
              val |-> document_namespaces + 1]
  /\ UNCHANGED <<file_types, regTables, documents, identifiers, relationships, proc>>

\* the namespaces that no document owns
BareNamespaces ==
  {ns \in 1..document_namespaces :
     \A d \in DOMAIN documents : documents[d].document_namespace_id # ns}

\* create_all_identifiers(conn, doc_namespace_id, package) called directly:
\* identifiers without a document and without structural edges
CreateAllIdentifiers(ns, package_id) ==
  /\ LET all == CreateAllIdentifiersOn(identifiers, files, packages, packages_files,
                                       ns, package_id) IN
       /\ identifiers' = all.identifiers
       /\ last' = [op |-> "create_all_identifiers", arg |-> <<ns, package_id>>,
                   outcome |-> all.outcome, val |-> None]
  /\ UNCHANGED <<file_types, regTables, document_namespaces, documents,
                 relationships, proc>>

(***************************************************************************)
(* The prerequisite graph: create_relationship_prerequisite and            *)
(* get_dependencies.                                                       *)
(***************************************************************************)
PrereqRows(rels) == {i \in DOMAIN rels : rels[i].relationship_type_id = PREREQUISITE}

\* queries.check_for_relationship(parent, child): the stored edges with this
\* (left, PREREQUISITE, right)
CheckForRelationship(rels, parent_identifier, child_identifier) ==
  {i \in DOMAIN rels : rels[i] = Edge(parent_identifier, PREREQUISITE, child_identifier)}

\* a create_relationship_prerequisite that inserts without the existence check
CreateRelationshipPrerequisiteOnUnchecked(rels, parent_identifier, child_identifier) ==
  LET new_relationship == Edge(parent_identifier, PREREQUISITE, child_identifier) IN
  IF RelationshipInsertAllowed(rels, new_relationship)
  THEN [relationships |-> Append(rels, new_relationship), outcome |-> "ok"]
  ELSE [relationships |-> rels, outcome |-> "IntegrityError"]

\* create_relationship_prerequisite(conn, parent_identifier, child_identifier) on
\* the relationships table rels: the table afterwards and the outcome ("exists":
\* the duplicate was reported and nothing inserted)
CreateRelationshipPrerequisiteOn(rels, parent_identifier, child_identifier) ==
  LET new_relationship == Edge(parent_identifier, PREREQUISITE, child_identifier) IN
  IF CheckForRelationship(rels, parent_identifier, child_identifier) = {}
  THEN IF RelationshipInsertAllowed(rels, new_relationship)
       THEN [relationships |-> Append(rels, new_relationship), outcome |-> "ok"]
       ELSE [relationships |-> rels, outcome |-> "IntegrityError"]
  ELSE [relationships |-> rels, outcome |-> "exists"]

\* the identifiers that reference a package
PackageIdentifiers == {i \in DOMAIN identifiers : identifiers[i].package_id # None}

\* create_relationship_prerequisite called with two package identifiers
CreateRelationshipPrerequisite(parent_identifier, child_identifier) ==
  LET r == CreateRelationshipPrerequisiteOn(relationships, parent_identifier,
                                            child_identifier) IN
  /\ relationships' = r.relationships
  /\ last' = [op |-> "create_relationship_prerequisite",
              arg |-> <<parent_identifier, child_identifier>>,
              outcome |-> r.outcome, val |-> None]
  /\ UNCHANGED <<file_types, regTables, docTables, proc>>

\* a lookup that takes a missing package or identifier for a root without edges
RootLookupLenient(pkgs, idents, t) ==
  LET package == LookupBySha1(pkgs, ArchiveSha1(t))
      rows == {i \in DOMAIN idents : idents[i].package_id = package}
  IN IF package = None \/ package = TooMany \/ rows = {}
     THEN {[outcome |-> "ok", package_identifier |-> None]}
     ELSE {[outcome |-> "ok", package_identifier |-> i] : i \in rows}

\* get_dependencies, lines 278-280: the package row by the archive's hash, then
\* "[package_identifier] = conn.execute(find_identifier_by_package_id).fetchone()".
\* Subscripting the missing package raises TypeError; for a package without an
\* identifier the query yields no row to unpack (TypeError) or a row holding
\* NULL (the "Package given does not exist" branch); with several identifiers
\* fetchone() yields any one of them
RootLookup(pkgs, idents, t) ==
  LET package == LookupBySha1(pkgs, ArchiveSha1(t))
      rows == {i \in DOMAIN idents : idents[i].package_id = package}
  IN IF package = None \/ package = TooMany
     THEN {[outcome |-> IF package = None THEN "TypeError" ELSE "ValueError",
            package_identifier |-> None]}
     ELSE IF rows = {}
          THEN {[outcome |-> "TypeError", package_identifier |-> None],
                [outcome |-> "not_found", package_identifier |-> None]}
          ELSE {[outcome |-> "ok", package_identifier |-> i] : i \in rows}

\* register_relationship(conn, parent_package, child_package) for the archives
\* of trees tp and tc: both package rows, then both identifiers, looked up as
\* in get_dependencies; create_relationship_prerequisite when both identifiers
\* were found, "Packages have not been created" when one of them is NULL; the
\* lookups by hash (lines 266-267) come before the subscripts and unpackings
\* that raise TypeError (lines 269-270)
RegisterRelationship(tp, tc) ==
  /\ \E parent \in RootLookup(packages, identifiers, tp),
        child \in RootLookup(packages, identifiers, tc) :
       IF parent.outcome # "ok" \/ child.outcome # "ok"
       THEN /\ last' = [op |-> "register_relationship", arg |-> <<tp, tc>>,
                        outcome |-> IF "ValueError" \in {parent.outcome, child.outcome}
                                    THEN "ValueError"
                                    ELSE IF "TypeError" \in {parent.outcome, child.outcome}
                                    THEN "TypeError"
                                    ELSE "not_found",
                        val |-> None]
            /\ UNCHANGED relationships
       ELSE LET r == CreateRelationshipPrerequisiteOn(relationships,
                                                      parent.package_identifier,
                                                      child.package_identifier)
            IN /\ relationships' = r.relationships
               /\ last' = [op |-> "register_relationship", arg |-> <<tp, tc>>,
                           outcome |-> r.outcome,
                           val |-> <<parent.package_identifier,
                                     child.package_identifier>>]
  /\ UNCHANGED <<file_types, regTables, docTables, proc>>

\* the rows of the query of lines 288-306, as (left, right, type) items in table
\* order.  Python's "and" between two SQL clauses yields the first clause (the
\* truth value of a clause comparing two different operands is False), so the
\* second member of the UNION ALL selects the rows of rel2 whose right identifier
\* is the left identifier of some row of rel (the member never refers to the CTE
\* itself), and the outer filter keeps relationship_type_id == 29 alone
QueryResult(rels, package_identifier) ==
  LET InNodes(r) == \/ r.left_identifier_id = package_identifier
                    \/ \E j \in DOMAIN rels :
                          rels[j].left_identifier_id = r.right_identifier_id
      Kept(r) == InNodes(r) /\ r.relationship_type_id = PREREQUISITE
      keys == KeysWhere(rels, Kept, 1)
  IN [k \in DOMAIN keys |-> <<rels[keys[k]].left_identifier_id,
                              rels[keys[k]].right_identifier_id,
                              rels[keys[k]].relationship_type_id>>]

\* lines 309-313: the root and its direct children, when the root has any
FirstKeys(result, package_identifier) ==
  UNION {{result[k][1], result[k][2]} :
           k \in {j \in DOMAIN result : result[j][1] = package_identifier}}

\* one pass "for item in result" of lines 317-320 from item k on
RECURSIVE ExpandPass(_, _, _, _)
ExpandPass(result, k, keys, count) ==
  IF k > Len(result) THEN [keys |-> keys, count |-> count]
  ELSE IF result[k][1] \in keys /\ result[k][2] \notin keys
       THEN ExpandPass(result, k + 1, keys \cup {result[k][2]}, count - 1)
       ELSE ExpandPass(result, k + 1, keys, count)

\* a loop test that needs count below 0
LoopGoesOnBelowZero(count) == count < 0

\* "while(count < 1)", line 316
LoopGoesOn(count) == count < 1

\* the loop "while(count < 1)" of lines 316-321
RECURSIVE ExpandLoop(_, _, _)
ExpandLoop(result, keys, count) ==
  IF LoopGoesOn(count)
  THEN LET pass == ExpandPass(result, 1, keys, count) IN
       ExpandLoop(result, pass.keys, pass.count + 1)
  ELSE keys

\* relationshipHash.keys() when the loop has ended (count starts at 0)
RelationshipHashKeys(rels, package_identifier) ==
  LET result == QueryResult(rels, package_identifier) IN
  ExpandLoop(result, FirstKeys(result, package_identifier), 0)

\* lines 323-326: the items of result with both identifiers among the keys
KeptRelationships(result, keys) ==
  LET Both(item) == item[1] \in keys /\ item[2] \in keys IN
  SelectSeq(result, Both)

\* lines 333-339: "for index, val in enumerate(lst): if val[0] == root:
\* lst.insert(0, lst.pop(index))" from position index on
RECURSIVE RootToFront(_, _, _)
RootToFront(lst, package_identifier, index) ==
  IF index > Len(lst) THEN lst
  ELSE IF lst[index][1] = package_identifier
       THEN RootToFront(<<lst[index]>> \o SubSeq(lst, 1, index - 1)
                                       \o SubSeq(lst, index + 1, Len(lst)),
                        package_identifier, index + 1)
       ELSE RootToFront(lst, package_identifier, index + 1)

\* queries.get_package_names(identifier ids): (identifier_id, package name) of
\* the identifiers among keys that reference a package
GetPackageNames(pkgs, idents, keys) ==
  {<<i, pkgs[idents[i].package_id].file_name>> :
     i \in {j \in keys : j \in DOMAIN idents /\ idents[j].package_id # None}}

\* get_dependencies(conn, package) for the archive of tree t; the rows of
\* get_package_names come in any order
GetDependencies(t) ==
  /\ \E root \in RootLookup(packages, identifiers, t) :
       IF root.outcome # "ok"
       THEN last' = [op |-> "get_dependencies", arg |-> t, outcome |-> root.outcome,
                     val |-> None]
       ELSE LET package_identifier == root.package_identifier
                result == QueryResult(relationships, package_identifier)
                keys == RelationshipHashKeys(relationships, package_identifier)
            IN \E package_dependencies \in Orders(GetPackageNames(packages, identifiers, keys)) :
                 last' = [op |-> "get_dependencies", arg |-> t, outcome |-> "ok",
                          val |-> [root |-> package_identifier,
                                   nodes |-> RootToFront(package_dependencies,
                                                         package_identifier, 1),
                                   edges |-> RootToFront(KeptRelationships(result, keys),
                                                         package_identifier, 1)]]
  /\ UNCHANGED <<file_types, regTables, docTables, relationships, proc>>

NoCall == [op |-> "none", arg |-> None, outcome |-> "ok", val |-> None]

\* an empty database; the file_types table was loaded in full or without "OTHER"
Init ==
  /\ file_types \in {TypeNames, TypeNames \ {"OTHER"}}
  /\ files = <<>>
  /\ packages = <<>>
  /\ packages_files = <<>>
  /\ document_namespaces = 0
  /\ documents = <<>>
  /\ identifiers = <<>>
  /\ relationships = <<>>
  /\ last = NoCall
  /\ proc = <<>>

Next ==
  \/ \E path \in AllPaths : RegisterFile(path)
  \/ \E t \in Trees, arch \in BOOLEAN :
       /\ \/ Len(packages) < MaxPackages
          \/ CachedPackage(packages, t, arch) # None
       /\ RegisterPackage(t, arch)

\* one caller registering files and packages
Spec == Init /\ [][Next]_vars

\* an empty database with the file_types table loaded in full
GraphInit == Init /\ file_types = TypeNames

\* cap on the work of the graph callers: rows of document_namespaces, package
\* identifiers and PREREQUISITE edges, and the registered packages, the n-th
\* of them weighing n
MaxGraphWork == 9

GraphWork ==
  (Len(packages) * (Len(packages) + 1)) \div 2 + document_namespaces
    + Cardinality(PackageIdentifiers)
    + Cardinality(PrereqRows(relationships))

\* The graph callers' inputs: the archives are registered in tree order; one
\* namespace is created outside create_document, and identifiers are allocated
\* in it package by package, in package order, once per package.
GraphNext ==
  \/ \E t \in Trees :
       /\ t = Len(packages) + 1
       /\ GraphWork < MaxGraphWork
       /\ RegisterPackage(t, TRUE)
  \/ \E package_id \in DOMAIN packages :
       /\ GraphWork + 1 < MaxGraphWork
       /\ CreateDocument(package_id)
  \/ /\ BareNamespaces = {}
     /\ GraphWork < MaxGraphWork
     /\ CreateDocumentNamespace
  \/ \E ns \in BareNamespaces, package_id \in DOMAIN packages :
       /\ \A i \in PackageIdentifiers :
            identifiers[i].document_namespace_id = ns
              => identifiers[i].package_id < package_id
       /\ GraphWork < MaxGraphWork
       /\ CreateAllIdentifiers(ns, package_id)
  \/ \E parent, child \in PackageIdentifiers :
       /\ \/ GraphWork < MaxGraphWork
          \/ CheckForRelationship(relationships, parent, child) # {}
       /\ CreateRelationshipPrerequisite(parent, child)
  \/ \E docid \in DOMAIN documents : AutocreateRelationships(docid)
  \/ \E tp, tc \in Trees :
       /\ GraphWork < MaxGraphWork
       /\ RegisterRelationship(tp, tc)
  \/ \E t \in Trees : GetDependencies(t)

\* one caller registering archives, assembling documents and building and
\* querying the prerequisite graph
GraphSpec == GraphInit /\ [][GraphNext]_vars

(***************************************************************************)
(* Two callers on one database.  A call is a sequence of statements; each  *)
(* statement takes effect at once and is seen by the other caller          *)
(* (register_file, register_package and create_relationship_prerequisite   *)
(* open no transaction and catch no exception).                            *)
(***************************************************************************)
Procs == {1, 2}

\* cap on the calls of one caller
MaxConcCalls == 2

Idle == [pc |-> "idle", op |-> "none", arg |-> None, outcome |-> "ok", val |-> None,
         todo |-> <<>>, row_params |-> <<>>, calls |-> 0]

\* caller p may start a call
MayCall(p) == proc[p].pc \in {"idle", "done"} /\ proc[p].calls < MaxConcCalls

\* caller p in a call of op on arg, at statement pc
InCall(p, op, arg, pc) ==
  [proc[p] EXCEPT !.pc = pc, !.op = op, !.arg = arg, !.outcome = "ok", !.val = None,
                  !.todo = <<>>, !.row_params = <<>>, !.calls = proc[p].calls + 1]

\* the call of caller p ends with outcome and val
Return(p, outcome, val) ==
  proc' = [proc EXCEPT ![p] = [@ EXCEPT !.pc = "done", !.outcome = outcome,
                                        !.val = val, !.todo = <<>>,
                                        !.row_params = <<>>]]

\* register_file, line 59: the lookup by hash
RfLookup(p, path) ==
  /\ MayCall(p)
  /\ LET file == LookupBySha1(files, FileSha1(path))
         call == InCall(p, "register_file", path, "rf_insert")
     IN proc' = [proc EXCEPT ![p] =
                   IF file = None THEN call
                   ELSE [call EXCEPT !.pc = "done",
                                     !.outcome = IF file = TooMany THEN "ValueError" ELSE "ok",
                                     !.val = IF file = TooMany THEN None ELSE file]]
  /\ UNCHANGED <<file_types, regTables, docTables, relationships, last>>

\* register_file, lines 62-76: the file type, then the insert
RfInsert(p) ==
  /\ proc[p].pc = "rf_insert"
  /\ LET path == proc[p].arg
         row == [sha1 |-> FileSha1(path), file_type |-> SpdxFiletype(path)]
     IN IF SpdxFiletype(path) \notin file_types
        THEN Return(p, "TypeError", None) /\ UNCHANGED files
        ELSE IF ~FileInsertAllowed(files, row)
        THEN Return(p, "IntegrityError", None) /\ UNCHANGED files
        ELSE files' = Append(files, row) /\ Return(p, "ok", Len(files) + 1)
  /\ UNCHANGED <<file_types, packages, packages_files, docTables, relationships, last>>

\* register_package, lines 97-107: the cache lookup
RpLookup(p, t, arch) ==
  /\ MayCall(p)
  /\ LET cached == CachedPackage(packages, t, arch)
         call == InCall(p, "register_package", <<t, arch>>, "rp_insert")
     IN proc' = [proc EXCEPT ![p] =
                   IF cached = None THEN call
                   ELSE [call EXCEPT !.pc = "done",
                                     !.outcome = IF cached = TooMany THEN "ValueError" ELSE "ok",
                                     !.val = IF cached = TooMany THEN None ELSE cached]]
  /\ UNCHANGED <<file_types, regTables, docTables, relationships, last>>

\* register_package, line 135: the insert of the package row; the loop over
\* hashes.iteritems() starts
RpInsert(p) ==
  /\ proc[p].pc = "rp_insert"
  /\ Len(packages) < MaxPackages
  /\ LET t == proc[p].arg[1]
         row == PackageRow(t, proc[p].arg[2])
     IN IF ~PackageInsertAllowed(packages, row)
        THEN Return(p, "IntegrityError", None) /\ UNCHANGED packages
        ELSE /\ packages' = Append(packages, row)
             /\ \E order \in Orders(TreePaths(t)) :
                  proc' = [proc EXCEPT ![p] =
                             [@ EXCEPT !.pc = IF order = <<>> THEN "rp_bulk" ELSE "rp_file",
                                       !.val = Len(packages) + 1,
                                       !.todo = order]]
  /\ UNCHANGED <<file_types, files, packages_files, docTables, relationships, last>>

\* the packages_files parameters of the file the loop of caller p is at
PackageFileParams(p, file_id) ==
  [package_id |-> proc[p].val, file_id |-> file_id,
   file_name |-> AbsToRel(Head(proc[p].todo))]

\* the loop of caller p goes on to its next file, or to the bulk insert
NextFile(p, file_id) ==
  proc' = [proc EXCEPT ![p] =
             [@ EXCEPT !.pc = IF Len(proc[p].todo) = 1 THEN "rp_bulk" ELSE "rp_file",
                       !.todo = Tail(proc[p].todo),
                       !.row_params = Append(proc[p].row_params,
                                             PackageFileParams(p, file_id))]]

\* register_package, line 139: register_file for the next file, its lookup
RpFileLookup(p) ==
  /\ proc[p].pc = "rp_file"
  /\ LET file == LookupBySha1(files, FileSha1(Head(proc[p].todo))) IN
     IF file = TooMany THEN Return(p, "ValueError", None)
     ELSE IF file # None THEN NextFile(p, file)
     ELSE proc' = [proc EXCEPT ![p] = [@ EXCEPT !.pc = "rp_file_insert"]]
  /\ UNCHANGED <<file_types, regTables, docTables, relationships, last>>

\* register_package, line 139: register_file for the next file, its insert
RpFileInsert(p) ==
  /\ proc[p].pc = "rp_file_insert"
  /\ LET path == Head(proc[p].todo)
         row == [sha1 |-> FileSha1(path), file_type |-> SpdxFiletype(path)]
     IN IF SpdxFiletype(path) \notin file_types
        THEN Return(p, "TypeError", None) /\ UNCHANGED files
        ELSE IF ~FileInsertAllowed(files, row)
        THEN Return(p, "IntegrityError", None) /\ UNCHANGED files
        ELSE files' = Append(files, row) /\ NextFile(p, Len(files) + 1)
  /\ UNCHANGED <<file_types, packages, packages_files, docTables, relationships, last>>

\* register_package, lines 148-149: the bulk insert of packages_files
RpBulk(p) ==
  /\ proc[p].pc = "rp_bulk"
  /\ packages_files' = packages_files \o proc[p].row_params
  /\ Return(p, "ok", proc[p].val)
  /\ UNCHANGED <<file_types, files, packages, docTables, relationships, last>>

\* create_document, as one step of caller p
ConcCreateDocument(p, package_id) ==
  /\ MayCall(p)
  /\ LET r == CreateDocumentOn(document_namespaces, documents, identifiers,
                               relationships, files, packages, packages_files,
                               package_id) IN
     /\ document_namespaces' = r.document_namespaces
     /\ documents' = r.documents
     /\ identifiers' = r.identifiers
     /\ relationships' = r.relationships
     /\ proc' = [proc EXCEPT ![p] =
                   [InCall(p, "create_document", package_id, "done")
                      EXCEPT !.val = r.document_id, !.outcome = r.outcome]]
  /\ UNCHANGED <<file_types, regTables, last>>

\* create_relationship_prerequisite, line 217: the existence check
CrpCheck(p, parent_identifier, child_identifier) ==
  /\ MayCall(p)
  /\ LET call == InCall(p, "create_relationship_prerequisite",
                        <<parent_identifier, child_identifier>>, "crp_insert")
     IN proc' = [proc EXCEPT ![p] =
                   IF CheckForRelationship(relationships, parent_identifier,
                                           child_identifier) = {}
                   THEN call
                   ELSE [call EXCEPT !.pc = "done", !.outcome = "exists"]]
  /\ UNCHANGED <<file_types, regTables, docTables, relationships, last>>

\* create_relationship_prerequisite, line 218: the insert
CrpInsert(p) ==
  /\ proc[p].pc = "crp_insert"
  /\ LET new_relationship == Edge(proc[p].arg[1], PREREQUISITE, proc[p].arg[2]) IN
     IF RelationshipInsertAllowed(relationships, new_relationship)
     THEN relationships' = Append(relationships, new_relationship) /\ Return(p, "ok", None)
     ELSE Return(p, "IntegrityError", None) /\ UNCHANGED relationships
  /\ UNCHANGED <<file_types, regTables, docTables, last>>

\* an empty database with the file_types table loaded in full, both callers idle
ConcInit ==
  /\ file_types = TypeNames
  /\ files = <<>>
  /\ packages = <<>>
  /\ packages_files = <<>>
  /\ document_namespaces = 0
  /\ documents = <<>>
  /\ identifiers = <<>>
  /\ relationships = <<>>
  /\ last = NoCall
  /\ proc = [p \in Procs |-> Idle]

ConcNext ==
  \E p \in Procs :
    \/ \E path \in AllPaths : RfLookup(p, path)
    \/ RfInsert(p)
    \/ \E t \in Trees, arch \in BOOLEAN : RpLookup(p, t, arch)
    \/ RpInsert(p)
    \/ RpFileLookup(p)
    \/ RpFileInsert(p)
    \/ RpBulk(p)
    \/ \E package_id \in DOMAIN packages : ConcCreateDocument(p, package_id)
    \/ \E parent, child \in PackageIdentifiers : CrpCheck(p, parent, child)
    \/ CrpInsert(p)

\* two callers, statement by statement
ConcSpec == ConcInit /\ [][ConcNext]_vars

(***************************************************************************)
(* The verification code as a function of the hashes handed to it: proc    *)
(* holds the hashes of the files of a tree in the order the walk yields    *)
(* them, last the code computed at the last call.                          *)
(***************************************************************************)
\* cap on the files of the tree
MaxHashes == 3

Hashes == 1..NumContents

HashLists == UNION {[1..n -> Hashes] : n \in 0..MaxHashes}

\* util.gen_ver_code over the hashes as they are now
GenVerCodeCall ==
  /\ last' = [op |-> "gen_ver_code", arg |-> proc, outcome |-> "ok",
              val |-> GenVerCode(proc)]
  /\ UNCHANGED <<file_types, regTables, docTables, relationships, proc>>

\* the walk yields the same files in another order
Reorder ==
  /\ \E f \in Orders(DOMAIN proc) :
       /\ f # [i \in DOMAIN proc |-> i]
       /\ proc' = [i \in DOMAIN proc |-> proc[f[i]]]
  /\ UNCHANGED <<file_types, regTables, docTables, relationships, last>>

\* the content of one file changes
ChangeFile(i, h) ==
  /\ proc[i] # h
  /\ proc' = [proc EXCEPT ![i] = h]
  /\ UNCHANGED <<file_types, regTables, docTables, relationships, last>>

\* a file is added to the tree
AddFile(h) ==
  /\ Len(proc) < MaxHashes
  /\ proc' = Append(proc, h)
  /\ UNCHANGED <<file_types, regTables, docTables, relationships, last>>

VerInit ==
  /\ file_types = TypeNames
  /\ files = <<>>
  /\ packages = <<>>
  /\ packages_files = <<>>
  /\ document_namespaces = 0
  /\ documents = <<>>
  /\ identifiers = <<>>
  /\ relationships = <<>>
  /\ last = NoCall
  /\ proc \in HashLists

VerNext ==
  \/ GenVerCodeCall
  \/ Reorder
  \/ \E i \in DOMAIN proc, h \in Hashes : ChangeFile(i, h)
  \/ \E h \in Hashes : AddFile(h)

VerSpec == VerInit /\ [][VerNext]_vars

(***************************************************************************)
(* The expansion loop of get_dependencies, lines 309-321, statement by     *)
(* statement over a query result: proc holds result, the root, the keys of *)
(* relationshipHash, count, and the position in the pass.                  *)
(***************************************************************************)
\* identifiers the edges of the result run between
MaxLoopNodes == 4
\* cap on the rows of the result
MaxLoopEdges == 3

LoopNodes == 1..MaxLoopNodes

\* the root of the call
LoopRoot == 1

\* the k-th identifier the rows of the result mention, read left to right
LoopMention(result, k) == result[(k + 1) \div 2][IF k % 2 = 1 THEN 1 ELSE 2]

\* the loop compares identifiers for equality only: the identifiers other than
\* the root are numbered in the order the result first mentions them
NumberedInOrder(result) ==
  \A k \in 1..(2 * Len(result)) :
     LoopMention(result, k) > LoopRoot + 1
       => \E j \in 1..(k - 1) : LoopMention(result, j) = LoopMention(result, k) - 1

\* the results of the query: distinct PREREQUISITE rows in any order
LoopResults ==
  {r \in UNION {[1..n -> (LoopNodes \X LoopNodes \X {PREREQUISITE})] : n \in 0..MaxLoopEdges} :
     /\ \A i, j \in DOMAIN r : i # j => r[i] # r[j]
     /\ NumberedInOrder(r)}

\* line 316: the test of the while loop
LoopTest ==
  /\ proc.pc = "test"
  /\ proc' = IF LoopGoesOn(proc.count)
             THEN [proc EXCEPT !.pc = "pass", !.index = 1]
             ELSE [proc EXCEPT !.pc = "done"]
  /\ UNCHANGED <<file_types, regTables, docTables, relationships, last>>

\* lines 317-320: one item of the pass
PassItem ==
  /\ proc.pc = "pass"
  /\ proc.index <= Len(proc.result)
  /\ LET item == proc.result[proc.index] IN
     proc' = IF item[1] \in proc.keys /\ item[2] \notin proc.keys
             THEN [proc EXCEPT !.count = proc.count - 1,
                               !.keys = proc.keys \cup {item[2]},
                               !.index = proc.index + 1]
             ELSE [proc EXCEPT !.index = proc.index + 1]
  /\ UNCHANGED <<file_types, regTables, docTables, relationships, last>>

\* line 321: the pass is over
PassEnd ==
  /\ proc.pc = "pass"
  /\ proc.index > Len(proc.result)
  /\ proc' = [proc EXCEPT !.count = proc.count + 1, !.pc = "test"]
  /\ UNCHANGED <<file_types, regTables, docTables, relationships, last>>

\* lines 309-315 have run: relationshipHash holds the root's items, count is 0
LoopInit ==
  /\ file_types = TypeNames
  /\ files = <<>>
  /\ packages = <<>>
  /\ packages_files = <<>>
  /\ document_namespaces = 0
  /\ documents = <<>>
  /\ identifiers = <<>>
  /\ relationships = <<>>
  /\ last = NoCall
  /\ \E result \in LoopResults, package_identifier \in {LoopRoot} :
       proc = [result |-> result, root |-> package_identifier,
               keys |-> FirstKeys(result, package_identifier),
               count |-> 0, index |-> 1, pc |-> "test"]

LoopNext == LoopTest \/ PassItem \/ PassEnd

\* the interpreter keeps executing the loop
LoopSpec == LoopInit /\ [][LoopNext]_vars /\ WF_vars(LoopNext)

(***************************************************************************)
(* Properties of registration.                                             *)
(***************************************************************************)
\* the rows of packages stored under the cache key of input (t, arch)
StoredFor(pkgs, t, arch) ==
  {i \in DOMAIN pkgs :
     IF arch THEN pkgs[i].sha1 = ArchiveSha1(t)
     ELSE /\ pkgs[i].dosocs2_dir_code = DirCode(t)
          /\ pkgs[i].verification_code = VerCode(t)}

\* s is s2 cut short: no row of s was changed or removed
IsPrefix(s, s2) == Len(s) <= Len(s2) /\ \A i \in DOMAIN s : s2[i] = s[i]

\* C3: a register_package call whose input is already stored under its cache key
\* returns that stored package and adds no row to packages, files or
\* packages_files; a call that creates a package leaves it stored under the key
\* of its input, and a stored package keeps its id and key: so every later call
\* with equivalent input returns the package_id of the first
RegisterPackageIdempotent ==
  [][/\ IsPrefix(packages, packages')
     /\ last'.op = "register_package" =>
          LET t == last'.arg[1]
              arch == last'.arg[2]
          IN /\ StoredFor(packages, t, arch) # {} =>
                  /\ last'.outcome = "ok"
                  /\ StoredFor(packages, t, arch) = {last'.val}
                  /\ regTables' = regTables
             /\ StoredFor(packages, t, arch) = {} /\ last'.outcome = "ok" =>
                  StoredFor(packages', t, arch) = {last'.val}]_vars

\* C3 witness: a directory with files was registered again and the call returned
\* the package an earlier call created
RegisterPackageAgain ==
  /\ last.op = "register_package" /\ last.outcome = "ok"
  /\ ~last.arg[2]
  /\ TreeSize(last.arg[1]) > 0
  /\ last.val < Len(packages)

\* C4: the files table never holds two rows with one content hash, no row of it
\* is ever changed, and a register_file call for a hash already stored returns
\* the stored File and changes nothing; register_package never fails on a file
\* that is stored already, and associates every path with the File of its hash
RegisterFileIdempotent ==
  [][/\ \A i, j \in DOMAIN files' : files'[i].sha1 = files'[j].sha1 => i = j
     /\ IsPrefix(files, files')
     /\ last'.op = "register_file" =>
          LET stored == {i \in DOMAIN files : files[i].sha1 = FileSha1(last'.arg)} IN
          stored # {} => /\ last'.outcome = "ok"
                         /\ stored = {last'.val}
                         /\ regTables' = regTables
     /\ last'.op = "register_package" =>
          /\ last'.outcome \notin {"IntegrityError", "ValueError"}
          /\ \A k \in DOMAIN packages_files' :
               k \notin DOMAIN packages_files =>
                 LET pf == packages_files'[k] IN
                 /\ pf.file_id \in DOMAIN files'
                 /\ files'[pf.file_id].sha1 = FileSha1(<<last'.arg[1], pf.file_name>>)]_vars

\* C4 witness: register_file returned a File that is not the newest row while
\* packages share it
RegisterFileAgain ==
  /\ last.op = "register_file" /\ last.outcome = "ok"
  /\ last.val < Len(files)
  /\ Cardinality({k \in DOMAIN packages_files : packages_files[k].file_id = last.val}) > 1

\* C6: every package row has exactly one of sha1 and dosocs2_dir_code null, and
\* the package a call returns has the one of its input's regime: sha1 for an
\* archive, dosocs2_dir_code for a directory
PackageRegimeExclusive ==
  /\ \A i \in DOMAIN packages :
       (packages[i].sha1 = None) # (packages[i].dosocs2_dir_code = None)
  /\ last.op = "register_package" /\ last.outcome = "ok" =>
       /\ last.val \in DOMAIN packages
       /\ (packages[last.val].sha1 # None) = last.arg[2]
       /\ (packages[last.val].dosocs2_dir_code # None) = ~last.arg[2]

\* C6 witness: both regimes are stored
BothRegimesStored ==
  /\ \E i \in DOMAIN packages : packages[i].sha1 # None
  /\ \E i \in DOMAIN packages : packages[i].dosocs2_dir_code # None
  /\ last.op = "register_package" /\ last.outcome = "ok"

\* the relative paths associated with package p
PackageFileNames(p) ==
  {packages_files[k].file_name : k \in {j \in DOMAIN packages_files :
                                           packages_files[j].package_id = p}}

\* C7: a package that register_package returns has its file associations in
\* storage, also when an earlier call for the input failed while registering the
\* files
NoOrphanPackageReturned ==
  last.op = "register_package" /\ last.outcome = "ok" =>
    PackageFileNames(last.val) = 1..TreeSize(last.arg[1])

(***************************************************************************)
(* Properties of the prerequisite graph.                                   *)
(***************************************************************************)
\* the (left, right) pairs of the stored PREREQUISITE edges
PrereqEdges ==
  {<<relationships[i].left_identifier_id, relationships[i].right_identifier_id>> :
     i \in PrereqRows(relationships)}

\* the identifiers reachable from those of S over PREREQUISITE edges, S included
RECURSIVE ReachableFrom(_)
ReachableFrom(S) ==
  LET next == S \cup {e[2] : e \in {x \in PrereqEdges : x[1] \in S}} IN
  IF next = S THEN S ELSE ReachableFrom(next)

\* the identifiers of the node sequence a get_dependencies call returned
NodeIds(val) == {val.nodes[k][1] : k \in DOMAIN val.nodes}

\* C1: the nodes get_dependencies returns are, the root aside, exactly the
\* identifiers reachable from the root over PREREQUISITE edges, at any depth
DependenciesAreTheReachable ==
  last.op = "get_dependencies" /\ last.outcome = "ok" =>
    NodeIds(last.val) \ {last.val.root} = ReachableFrom({last.val.root}) \ {last.val.root}

\* C2: the node sequence get_dependencies returns starts with the root, and is
\* the root alone when the root has no outgoing PREREQUISITE edge
RootIsFirst ==
  last.op = "get_dependencies" /\ last.outcome = "ok" =>
    /\ last.val.nodes # <<>>
    /\ last.val.nodes[1][1] = last.val.root
    /\ (\A e \in PrereqEdges : e[1] # last.val.root) => Len(last.val.nodes) = 1

\* C5: no (parent, child) pair has two PREREQUISITE edges; a
\* create_relationship_prerequisite call never fails: when its edge is stored it
\* reports that and leaves relationships unchanged, otherwise it appends the edge
PrerequisiteDedup ==
  [][/\ \A i, j \in PrereqRows(relationships') :
          relationships'[i] = relationships'[j] => i = j
     /\ last'.op = "create_relationship_prerequisite" =>
          LET new == Edge(last'.arg[1], PREREQUISITE, last'.arg[2]) IN
          IF new \in Range(relationships)
          THEN last'.outcome = "exists" /\ relationships' = relationships
          ELSE last'.outcome = "ok" /\ relationships' = Append(relationships, new)]_vars

\* C5 witness: a second call for a stored edge was reported, with other
\* prerequisites of the same parent stored
PrerequisiteRepeated ==
  /\ last.op = "create_relationship_prerequisite" /\ last.outcome = "exists"
  /\ Cardinality({e \in PrereqEdges : e[1] = last.arg[1]}) > 1

RowsForCall(p) ==
  IF proc[p].op = "register_file"
  THEN {i \in DOMAIN files : files[i].sha1 = FileSha1(proc[p].arg)}
  ELSE StoredFor(packages, proc[p].arg[1], proc[p].arg[2])

\* C8: with two callers interleaved statement by statement, every finished
\* register_file or register_package call succeeded and returned the one row
\* stored under its content hash, archive hash or (directory code, verification
\* code); no call fails on the other caller's insert
RegistrationRaceFree ==
  \A p \in Procs :
     (proc[p].pc = "done" /\ proc[p].op \in {"register_file", "register_package"})
       => /\ proc[p].outcome = "ok"
          /\ RowsForCall(p) = {proc[p].val}

\* C9: with two callers interleaved statement by statement, every finished
\* create_relationship_prerequisite call ended without an error and left exactly
\* one (parent, PREREQUISITE, child) row
PrerequisiteRaceFree ==
  \A p \in Procs :
     (proc[p].pc = "done" /\ proc[p].op = "create_relationship_prerequisite")
       => /\ proc[p].outcome \in {"ok", "exists"}
          /\ Cardinality(CheckForRelationship(relationships, proc[p].arg[1],
                                              proc[p].arg[2])) = 1

\* C20: with two callers interleaved statement by statement, a package that a
\* register_package call has returned, created or found by the cache lookup,
\* has the file associations of its tree in storage
ReturnedPackageComplete ==
  \A p \in Procs :
     (/\ proc[p].pc = "done"
      /\ proc[p].op = "register_package"
      /\ proc[p].outcome = "ok")
       => PackageFileNames(proc[p].val) = 1..TreeSize(proc[p].arg[1])

(***************************************************************************)
(* Properties of the verification code.                                    *)
(***************************************************************************)
\* how many files of the list have hash h
Count(hashes, h) == Cardinality({i \in DOMAIN hashes : hashes[i] = h})

\* the two lists hold the same hashes, each as often, in any order
SameHashes(a, b) == \A h \in Hashes : Count(a, h) = Count(b, h)

InNamespace(ns) == {i \in DOMAIN identifiers : identifiers[i].document_namespace_id = ns}

\* the packages_files rows of a package
FilesOfPackage(package_id) ==
  {k \in DOMAIN packages_files : packages_files[k].package_id = package_id}

\* the document rows a create_document call made for its namespace
DocumentsOf(ns) == {d \in DOMAIN documents : documents[d].document_namespace_id = ns}

\* C12: no two identifiers of one namespace have the same id_string, and a
\* create_document call ends with the document, the package and each file of
\* the package identified in the new namespace, under pairwise distinct
\* id_strings (also for files of equal content or with names that sanitize to
\* the same text)
IdStringsDistinct ==
  /\ \A i, j \in DOMAIN identifiers :
        (i # j /\ identifiers[i].document_namespace_id = identifiers[j].document_namespace_id)
          => identifiers[i].id_string # identifiers[j].id_string
  /\ last.op = "create_document" =>
       /\ last.outcome = "ok"
       /\ LET ns == document_namespaces IN
          /\ \E i \in InNamespace(ns) : identifiers[i].document_id = last.val
          /\ \E i \in InNamespace(ns) : identifiers[i].package_id = last.arg
          /\ \A k \in FilesOfPackage(last.arg) :
                \E i \in InNamespace(ns) : identifiers[i].package_file_id = k

CacheHitFrame ==
  [][(/\ last'.op = "register_package"
      /\ StoredFor(packages, last'.arg[1], last'.arg[2]) # {})
       => /\ last'.outcome = "ok"
          /\ last'.val \in StoredFor(packages, last'.arg[1], last'.arg[2])
          /\ <<packages, files, packages_files>>' = <<packages, files, packages_files>>
          /\ last'.arg[2] => ~last'.walked]_vars

\* C14 witness: an archive whose package is stored beside others was registered
\* again, and the call returned without walking the tree
ArchiveHitWithoutWalk ==
  /\ last.op = "register_package" /\ last.outcome = "ok"
  /\ last.arg[2] /\ ~last.walked
  /\ Len(packages) > 1
  /\ FilesOfPackage(last.val) # {}

\* C15: the edges get_dependencies returns are exactly the PREREQUISITE edges
\* whose two identifiers are both reachable from the root: none is missing,
\* none is of another type, none leaves the reachable set
EdgesAreTheInduced ==
  last.op = "get_dependencies" /\ last.outcome = "ok" =>
    LET reachable == ReachableFrom({last.val.root})
        returned == Range(last.val.edges)
    IN /\ \A e \in returned : e[3] = PREREQUISITE
       /\ {<<e[1], e[2]>> : e \in returned} =
            {e \in PrereqEdges : e[1] \in reachable /\ e[2] \in reachable}

References(row) ==
  Cardinality({f \in {"document_id", "package_id", "package_file_id"} : row[f] # None})

IdentifiersOfArchive(t) ==
  {i \in DOMAIN identifiers :
     /\ identifiers[i].package_id # None
     /\ identifiers[i].package_id \in DOMAIN packages
     /\ packages[identifiers[i].package_id].sha1 = ArchiveSha1(t)}

\* C19: register_relationship changes relationships only by appending one
\* PREREQUISITE edge from an identifier of the parent archive's package to one
\* of the child archive's package; when either archive has no package row or
\* its package has no identifier, the call ends without a result and the
\* relationships table is as before
RegisterRelationshipGuarded ==
  [][last'.op = "register_relationship" =>
       LET parents == IdentifiersOfArchive(last'.arg[1])
           children == IdentifiersOfArchive(last'.arg[2])
       IN /\ (parents = {} \/ children = {}) =>
               /\ relationships' = relationships
               /\ last'.outcome \in {"TypeError", "not_found"}
          /\ relationships' # relationships =>
               \E parent \in parents, child \in children :
                  relationships' = Append(relationships, Edge(parent, PREREQUISITE, child))]_vars

\* C19 witness: the parent's package has an identifier, the child archive is
\* registered without one, and the call ended without an edge, beside stored
\* prerequisite edges
ChildWithoutIdentifier ==
  /\ last.op = "register_relationship"
  /\ last.outcome \in {"TypeError", "not_found"}
  /\ IdentifiersOfArchive(last.arg[1]) # {}
  /\ IdentifiersOfArchive(last.arg[2]) = {}
  /\ \E i \in DOMAIN packages : packages[i].sha1 = ArchiveSha1(last.arg[2])
  /\ PrereqRows(relationships) # {}

(***************************************************************************)
(* Properties of the expansion loop.                                       *)
(***************************************************************************)
\* no row of the result leads from the keys to an identifier outside them
ClosedUnder(result, keys) ==
  \A k \in DOMAIN result : result[k][1] \in keys => result[k][2] \in keys

\* C18: for every result, with cycles and self-loops, the loop driven by count
\* ends, and when it has ended the collected identifiers are closed under the
\* rows of the result
ExpansionEndsClosed ==
  <>[](/\ proc.pc = "done"
       /\ ClosedUnder(proc.result, proc.keys)
       /\ proc.keys = ExpandLoop(proc.result, FirstKeys(proc.result, proc.root), 0))

\* C18 witness: the loop has ended after adding an identifier from which a row
\* of the result leads back into the collected identifiers (a cycle or a
\* self-loop)
LoopEndedOnCycle ==
  /\ proc.pc = "done"
  /\ \E k \in DOMAIN proc.result :
        /\ proc.result[k][1] \in proc.keys \ FirstKeys(proc.result, proc.root)
        /\ proc.result[k][2] \in proc.keys

====
